---- MODULE Spec2Model ----
(***************************************************************************)
(* A model of blockhead's GDAX order book mirror                           *)
(* (blockhead/gdax/websocket_client.py) and of its order manager           *)
(* (blockhead/gdax/order_manager.py, blockhead/gdax/tick_data.py,          *)
(* scripts/target_position.py).                                            *)
(*                                                                         *)
(* Decimal values (prices, sizes) are integers counting millionths.        *)
(* A Python dict is a function on its keys: "k in d" is k \in DOMAIN d,    *)
(* and d.get(k) is None exactly when k \notin DOMAIN d.                    *)
(***************************************************************************)
EXTENDS Integers, Sequences, FiniteSets, TLC

VARIABLES
    _bids,      \* GDAXWebsocketClient._bids: RBTree price -> list of orders
    _asks,      \* GDAXWebsocketClient._asks
    _sequence,  \* GDAXWebsocketClient._sequence
    outcome,    \* how the last callback of the client ended: the path
                \* on_message left by, the gap it logged, the exception raised
    order_objects,      \* the Order objects, by client_oid
    order_lookup,       \* OrderManager.order_lookup: key -> Order
    pending_orders,     \* OrderManager.pending_orders
    pending_strategies, \* OrderManager.pending_strategies
    strategies, \* OrderManager.strategies
    strategy,   \* the FollowStrategy object of scripts/target_position.py
    tickdata,   \* TickData.initialized, TickData._stop and where
                \* TickData.run stands
    on_init_at, \* where OrderManager.on_init stands, and the message
                \* TickData.handle_message holds meanwhile
    tasks,      \* the coroutines suspended in a gateway call
    gateway,    \* the requests issued to the gateway (Trader) so far
    market,     \* best bid and ask of gdax.orderbook.OrderBook
    fetch,      \* where fetch_bars (blockhead/gdax/data.py) stands, and its
                \* locals
    date,       \* the datetime blockhead/util.py is applied to
    local_timezone  \* tzlocal.get_localzone()

bookvars == <<_bids, _asks, _sequence, outcome>>

ordervars == <<order_objects, order_lookup, pending_orders, pending_strategies,
               strategies, strategy, tickdata, on_init_at, tasks, gateway,
               market>>

datavars == <<fetch, date, local_timezone>>

vars == <<_bids, _asks, _sequence, outcome, order_objects,
          order_lookup,
          pending_orders, pending_strategies, strategies, strategy,
          tickdata, on_init_at, tasks, gateway, market, fetch, date,
          local_timezone>>

-----------------------------------------------------------------------------
(* Bounds of the input space.                                              *)

\* the highest sequence number of the feed and the snapshots in Spec
MaxSeq == 103
\* the highest sequence number of the feed and the snapshots in SeqSpec
LastSeq == 106
\* the number of Order objects created in OrderSpec
MaxOrders == 3
\* the number of orders added through OrderManager.add_order
MaxAdded == 1
\* the number of coroutines suspended in a gateway call at one time
MaxTasks == 2
\* the feed stops matching an order filled to MaxFilled whole units
MaxFilled == 2
\* the number of batches fetch_bars is asked for
MaxBatches == 3
\* the gateway stops answering 429 after MaxFailures such answers to one
\* call of fetch_bars
MaxFailures == 7

Ids == {"m1", "m2", "m3"}

Sides == {"buy", "sell"}

PriceTexts == {"99.50", "100.50"}

SizeTexts == {"1", "2"}

-----------------------------------------------------------------------------
(* decimal.Decimal on the texts the feed and the gateway carry, counted in  *)
(* millionths.                                                             *)

Decimal(text) ==
    CASE text = "99.50" -> 99500000
      [] text = "99.60" -> 99600000
      [] text = "100.40" -> 100400000
      [] text = "100.50" -> 100500000
      [] text = "0" -> 0
      [] text = "0.000006" -> 6
      [] text = "1" -> 1000000
      [] text = "2" -> 2000000
      [] text = "3" -> 3000000

-----------------------------------------------------------------------------
(* bintrees.RBTree, as the client uses it.                                 *)

RBTree == [p \in {} |-> <<>>]

\* tree.insert(price, orders)
insert(tree, price, orders) ==
    [p \in DOMAIN tree \cup {price} |-> IF p = price THEN orders ELSE tree[p]]

\* tree.remove(price)
tree_remove(tree, price) ==
    [p \in DOMAIN tree \ {price} |-> tree[p]]

set_bids(S, price, bids) == [S EXCEPT !.bids = insert(S.bids, price, bids)]

set_asks(S, price, asks) == [S EXCEPT !.asks = insert(S.asks, price, asks)]

remove_bids(S, price) == [S EXCEPT !.bids = tree_remove(S.bids, price)]

remove_asks(S, price) == [S EXCEPT !.asks = tree_remove(S.asks, price)]

\* bintrees' tree.max_key() and tree.min_key(): the key, or the ValueError
\* of an empty tree
max_key(tree) ==
    IF DOMAIN tree = {} THEN [raised |-> "ValueError"]
    ELSE [key |-> CHOOSE p \in DOMAIN tree : \A q \in DOMAIN tree : q <= p]

min_key(tree) ==
    IF DOMAIN tree = {} THEN [raised |-> "ValueError"]
    ELSE [key |-> CHOOSE p \in DOMAIN tree : \A q \in DOMAIN tree : p <= q]

get_ask(S) == min_key(S.asks)

get_bid(S) == max_key(S.bids)

\* [o for o in orders if o['id'] != order_id]
Without(orders, order_id) == SelectSeq(orders, LAMBDA o : o.id # order_id)

\* orders[1:]
Rest(orders) == SubSeq(orders, 2, Len(orders))

-----------------------------------------------------------------------------
(* The book operations.  S is the client: [bids, asks, sequence, raised].  *)

\* add putting the order at the head of the queue
add_at_head(S, order) ==
    LET o == [id    |-> IF "order_id" \in DOMAIN order THEN order.order_id
                                                       ELSE order.id,
              side  |-> order.side,
              price |-> Decimal(order.price),
              size  |-> Decimal(IF "size" \in DOMAIN order
                                THEN order.size ELSE order.remaining_size)]
    IN  IF o.side = "buy"
        THEN set_bids(S, o.price,
                      IF o.price \notin DOMAIN S.bids
                      THEN <<o>> ELSE <<o>> \o S.bids[o.price])
        ELSE set_asks(S, o.price,
                      IF o.price \notin DOMAIN S.asks
                      THEN <<o>> ELSE <<o>> \o S.asks[o.price])

\* add putting the order alone at its price
add_alone(S, order) ==
    LET o == [id    |-> IF "order_id" \in DOMAIN order THEN order.order_id
                                                       ELSE order.id,
              side  |-> order.side,
              price |-> Decimal(order.price),
              size  |-> Decimal(IF "size" \in DOMAIN order
                                THEN order.size ELSE order.remaining_size)]
    IN  IF o.side = "buy" THEN set_bids(S, o.price, <<o>>)
        ELSE set_asks(S, o.price, <<o>>)

add(S, order) ==
    LET o == [id    |-> IF "order_id" \in DOMAIN order THEN order.order_id
                                                       ELSE order.id,
              side  |-> order.side,
              price |-> Decimal(order.price),
              size  |-> Decimal(IF "size" \in DOMAIN order
                                THEN order.size ELSE order.remaining_size)]
    IN  IF o.side = "buy"
        THEN set_bids(S, o.price,
                      IF o.price \notin DOMAIN S.bids
                      THEN <<o>> ELSE Append(S.bids[o.price], o))
        ELSE set_asks(S, o.price,
                      IF o.price \notin DOMAIN S.asks
                      THEN <<o>> ELSE Append(S.asks[o.price], o))

\* remove storing the queue back even when it has become empty
remove_keeping_level(S, order) ==
    LET price == Decimal(order.price)
    IN  IF order.side = "buy"
        THEN IF price \in DOMAIN S.bids
             THEN set_bids(S, price, Without(S.bids[price], order.order_id))
             ELSE S
        ELSE IF price \in DOMAIN S.asks
             THEN set_asks(S, price, Without(S.asks[price], order.order_id))
             ELSE S

remove(S, order) ==
    LET price == Decimal(order.price)
    IN  IF order.side = "buy"
        THEN IF price \in DOMAIN S.bids
             THEN LET bids == Without(S.bids[price], order.order_id)
                  IN  IF Len(bids) > 0 THEN set_bids(S, price, bids)
                                       ELSE remove_bids(S, price)
             ELSE S
        ELSE IF price \in DOMAIN S.asks
             THEN LET asks == Without(S.asks[price], order.order_id)
                  IN  IF Len(asks) > 0 THEN set_asks(S, price, asks)
                                       ELSE remove_asks(S, price)
             ELSE S

\* match_side with the assertion on the head of the queue left out
match_side_unchecked(S, order, side) ==
    LET size   == Decimal(order.size)
        price  == Decimal(order.price)
        orders == IF side = "buy" THEN S.bids[price] ELSE S.asks[price]
        put(queue) == IF side = "buy" THEN set_bids(S, price, queue)
                      ELSE set_asks(S, price, queue)
    IN  IF orders[1].size = size
        THEN put(Rest(orders))
        ELSE put([orders EXCEPT ![1].size = @ - size])

\* match on the side of the order, whose queue at the price is not empty
match_side(S, order, side) ==
    LET size   == Decimal(order.size)
        price  == Decimal(order.price)
        orders == IF side = "buy" THEN S.bids[price] ELSE S.asks[price]
        put(queue) == IF side = "buy" THEN set_bids(S, price, queue)
                      ELSE set_asks(S, price, queue)
    IN  IF orders[1].id # order.maker_order_id
        THEN [S EXCEPT !.raised = "AssertionError"]
        ELSE IF orders[1].size = size
        THEN put(Rest(orders))
        ELSE put([orders EXCEPT ![1].size = @ - size])

match(S, order) ==
    LET price == Decimal(order.price)
    IN  IF order.side = "buy"
        THEN IF price \notin DOMAIN S.bids \/ S.bids[price] = <<>>
             THEN S
             ELSE match_side(S, order, "buy")
        ELSE IF price \notin DOMAIN S.asks \/ S.asks[price] = <<>>
             THEN S
             ELSE match_side(S, order, "sell")

\* [o['id'] for o in orders].index(order_id)
IndexOf(orders, order_id) ==
    CHOOSE i \in 1..Len(orders) :
        /\ orders[i].id = order_id
        /\ \A j \in 1..(i - 1) : orders[j].id # order_id

\* change taking the order out of its place and putting it, with its new
\* size, at the tail of the queue
change_to_tail(S, order) ==
    IF "new_size" \notin DOMAIN order THEN S
    ELSE IF "price" \notin DOMAIN order THEN S
    ELSE
    LET new_size == Decimal(order.new_size)
        price    == Decimal(order.price)
        tree     == IF order.side = "buy" THEN S.bids ELSE S.asks
    IN  IF \/ price \notin DOMAIN tree
           \/ ~ \E i \in 1..Len(tree[price]) :
                    tree[price][i].id = order.order_id
        THEN S
        ELSE LET index == IndexOf(tree[price], order.order_id)
                 moved == Append(Without(tree[price], order.order_id),
                                 [tree[price][index] EXCEPT !.size = new_size])
             IN  IF order.side = "buy" THEN set_bids(S, price, moved)
                 ELSE set_asks(S, price, moved)

change(S, order) ==
    IF "new_size" \notin DOMAIN order THEN S
    ELSE IF "price" \notin DOMAIN order THEN S
    ELSE
    LET new_size == Decimal(order.new_size)
        price    == Decimal(order.price)
    IN  IF order.side = "buy"
        THEN IF \/ price \notin DOMAIN S.bids
                \/ ~ \E i \in 1..Len(S.bids[price]) :
                         S.bids[price][i].id = order.order_id
             THEN S
             ELSE LET bids  == S.bids[price]
                      index == IndexOf(bids, order.order_id)
                  IN  set_bids(S, price, [bids EXCEPT ![index].size = new_size])
        ELSE IF \/ price \notin DOMAIN S.asks
                \/ ~ \E i \in 1..Len(S.asks[price]) :
                         S.asks[price][i].id = order.order_id
             THEN S
             ELSE LET asks  == S.asks[price]
                      index == IndexOf(asks, order.order_id)
                  IN  set_asks(S, price, [asks EXCEPT ![index].size = new_size])

-----------------------------------------------------------------------------
(* Snapshot load.  res is the answer of get_product_order_book(level=3):   *)
(* [sequence, bids, asks], each entry <<price, size, id>>.                 *)

RECURSIVE add_all(_, _, _)
add_all(S, entries, side) ==
    IF entries = <<>> THEN S
    ELSE add_all(add(S, [id    |-> entries[1][3],
                         side  |-> side,
                         price |-> entries[1][1],
                         size  |-> entries[1][2]]),
                 Tail(entries), side)

\* reset_book loading the snapshot on top of the book it finds
reset_book_on_top(S, res) ==
    LET bids == add_all(S, res.bids, "buy")
        asks == add_all(bids, res.asks, "sell")
    IN  [asks EXCEPT !.sequence = res.sequence]

reset_book(S, res) ==
    LET empty == [S EXCEPT !.asks = RBTree, !.bids = RBTree]
        bids  == add_all(empty, res.bids, "buy")
        asks  == add_all(bids, res.asks, "sell")
    IN  [asks EXCEPT !.sequence = res.sequence]

on_sequence_gap(S, res) == reset_book(S, res)

-----------------------------------------------------------------------------
(* on_message.                                                             *)

\* PathOf taking a message that repeats the stored sequence as new
PathOf_repeat_applied(S, msg) ==
    IF S.sequence = -1 THEN "reset"
    ELSE IF "sequence" \in DOMAIN msg /\ msg.sequence < S.sequence
    THEN "stale"
    ELSE IF "sequence" \in DOMAIN msg /\ msg.sequence > S.sequence + 1
    THEN "gap"
    ELSE "dispatch"

\* PathOf without the test for older messages
PathOf_no_stale_test(S, msg) ==
    IF S.sequence = -1 THEN "reset"
    ELSE IF "sequence" \in DOMAIN msg /\ msg.sequence > S.sequence + 1
    THEN "gap"
    ELSE "dispatch"

\* PathOf tolerating one missing message before it reloads
PathOf_gap_of_two(S, msg) ==
    IF S.sequence = -1 THEN "reset"
    ELSE IF "sequence" \in DOMAIN msg /\ msg.sequence <= S.sequence
    THEN "stale"
    ELSE IF "sequence" \in DOMAIN msg /\ msg.sequence > S.sequence + 2
    THEN "gap"
    ELSE "dispatch"

\* the branch of on_message a message takes in client state S
PathOf(S, msg) ==
    IF S.sequence = -1 THEN "reset"
    ELSE IF "sequence" \in DOMAIN msg /\ msg.sequence <= S.sequence
    THEN "stale"
    ELSE IF "sequence" \in DOMAIN msg /\ msg.sequence > S.sequence + 1
    THEN "gap"
    ELSE "dispatch"

\* the if / elif chain without the branch of the change messages
dispatch_without_change(S, msg) ==
    IF msg.type = "match" THEN match(S, msg)
    ELSE IF msg.type = "open" THEN add(S, msg)
    ELSE IF msg.type = "done" /\ "price" \in DOMAIN msg THEN remove(S, msg)
    ELSE S

\* dispatch taking the order of a done message without a price out of every
\* queue of its side
dispatch_done_anywhere(S, msg) ==
    IF msg.type = "error" THEN S
    ELSE IF msg.type = "subscriptions" THEN S
    ELSE IF msg.type = "heartbeat" THEN S
    ELSE IF msg.type = "match" THEN match(S, msg)
    ELSE IF msg.type = "open" THEN add(S, msg)
    ELSE IF msg.type = "done" /\ "price" \in DOMAIN msg THEN remove(S, msg)
    ELSE IF msg.type = "change" THEN change(S, msg)
    ELSE IF msg.type \in {"received", "ticker"} THEN S
    ELSE IF msg.type = "done" /\ "price" \notin DOMAIN msg
         THEN IF msg.side = "buy"
              THEN [S EXCEPT !.bids = [p \in DOMAIN S.bids |->
                                          Without(S.bids[p], msg.order_id)]]
              ELSE [S EXCEPT !.asks = [p \in DOMAIN S.asks |->
                                          Without(S.asks[p], msg.order_id)]]
    ELSE S

\* the if / elif chain on msg['type']
dispatch(S, msg) ==
    IF msg.type = "error" THEN S
    ELSE IF msg.type = "subscriptions" THEN S
    ELSE IF msg.type = "heartbeat" THEN S
    ELSE IF msg.type = "match" THEN match(S, msg)
    ELSE IF msg.type = "open" THEN add(S, msg)
    ELSE IF msg.type = "done" /\ "price" \in DOMAIN msg THEN remove(S, msg)
    ELSE IF msg.type = "change" THEN change(S, msg)
    ELSE IF msg.type \in {"received", "ticker"} THEN S
    ELSE IF msg.type = "done" /\ "price" \notin DOMAIN msg THEN S
    ELSE S

\* on_message applying the message that detected a gap to the reloaded book
on_message_applying_after_gap(S, msg, res) ==
    LET path == PathOf(S, msg)
    IN  CASE path = "reset" ->
               [self |-> reset_book(S, res), outcome |-> [path |-> "reset"]]
          [] path = "stale" ->
               [self |-> S, outcome |-> [path |-> "stale"]]
          [] path = "gap" ->
               LET R == on_sequence_gap(S, res)
                   D == dispatch(R, msg)
               IN  [self |-> IF D.raised # "none" THEN R ELSE D,
                    outcome |-> [path |-> "gap", gap_start |-> S.sequence,
                                 gap_end |-> msg.sequence]]
          [] path = "dispatch" ->
               LET D == dispatch(S, msg)
               IN  IF D.raised # "none"
                   THEN [self |-> S, outcome |-> [path |-> D.raised]]
                   ELSE [self |-> IF "sequence" \in DOMAIN msg
                                  THEN [D EXCEPT !.sequence = msg.sequence]
                                  ELSE D,
                         outcome |-> [path |-> "applied"]]

\* on_message storing the sequence of a message although its dispatch raised
on_message_counting_raised(S, msg, res) ==
    LET path == PathOf(S, msg)
    IN  CASE path = "reset" ->
               [self |-> reset_book(S, res), outcome |-> [path |-> "reset"]]
          [] path = "stale" ->
               [self |-> S, outcome |-> [path |-> "stale"]]
          [] path = "gap" ->
               [self |-> on_sequence_gap(S, res),
                outcome |-> [path |-> "gap", gap_start |-> S.sequence,
                             gap_end |-> msg.sequence]]
          [] path = "dispatch" ->
               LET D == dispatch(S, msg)
                   T == IF D.raised # "none" THEN S ELSE D
               IN  [self |-> IF "sequence" \in DOMAIN msg
                             THEN [T EXCEPT !.sequence = msg.sequence]
                             ELSE T,
                    outcome |-> [path |-> IF D.raised # "none" THEN D.raised
                                          ELSE "applied"]]

\* the client after on_message(msg); res is what the gateway answers if asked
on_message(S, msg, res) ==
    LET path == PathOf(S, msg)
    IN  CASE path = "reset" ->
               [self |-> reset_book(S, res), outcome |-> [path |-> "reset"]]
          [] path = "stale" ->
               [self |-> S, outcome |-> [path |-> "stale"]]
          [] path = "gap" ->
               [self |-> on_sequence_gap(S, res),
                outcome |-> [path |-> "gap", gap_start |-> S.sequence,
                             gap_end |-> msg.sequence]]
          [] path = "dispatch" ->
               LET D == dispatch(S, msg)
               IN  IF D.raised # "none"
                   THEN [self |-> S, outcome |-> [path |-> D.raised]]
                   ELSE [self |-> IF "sequence" \in DOMAIN msg
                                  THEN [D EXCEPT !.sequence = msg.sequence]
                                  ELSE D,
                         outcome |-> [path |-> "applied"]]

-----------------------------------------------------------------------------
(* The feed and the snapshots the model draws from.                        *)

Sequenced(bodies, last) ==
    { b @@ [sequence |-> q] : b \in bodies, q \in 100..last }

OpenBodies ==
    [type : {"open"}, order_id : Ids, side : Sides, price : PriceTexts,
     remaining_size : SizeTexts]
    \cup [type : {"open"}, id : Ids, side : Sides, price : PriceTexts,
          size : SizeTexts]

DoneBodies ==
    [type : {"done"}, order_id : Ids, side : Sides, price : PriceTexts]
    \cup [type : {"done"}, order_id : Ids, side : Sides]

MatchBodies ==
    [type : {"match"}, maker_order_id : Ids, side : Sides, price : PriceTexts,
     size : SizeTexts]

ChangeBodies ==
    [type : {"change"}, order_id : Ids, side : Sides, price : PriceTexts,
     new_size : SizeTexts]
    \cup [type : {"change"}, order_id : Ids, side : Sides, new_size : SizeTexts]
    \cup [type : {"change"}, order_id : Ids, side : Sides, price : PriceTexts]

OtherBodies ==
    [type : {"received", "heartbeat", "ticker", "subscriptions", "error",
             "activate"}]

BookBodies ==
    OpenBodies \cup DoneBodies \cup MatchBodies \cup ChangeBodies

\* every message the claims speak of, with and without a sequence number
Feed ==
    LET bodies == BookBodies \cup OtherBodies
    IN  bodies \cup Sequenced(bodies, LastSeq)

\* the entries of one side of a snapshot: no order, or the one order
SnapshotSide(price, size, id) == {<<>>, <<<<price, size, id>>>>}

\* the snapshots the gateway may answer: the book as the exchange holds it,
\* m1 bidding 2 at 99.50 or gone, m2 asking 3 at 100.50 or gone, at any
\* sequence number up to last
Snapshots(last) ==
    [sequence : 100..last,
     bids : SnapshotSide("99.50", "2", "m1"),
     asks : SnapshotSide("100.50", "3", "m2")]

NoSnapshot == [sequence |-> -1, bids |-> <<>>, asks |-> <<>>]

-----------------------------------------------------------------------------
(* The client as one value, and the steps of the book specifications.      *)

Self == [bids |-> _bids, asks |-> _asks, sequence |-> _sequence,
         raised |-> "none"]

\* What the feed delivers in the runs explored.  The exchange numbers every
\* book message and never changes the side or the price of an order: m1 is a
\* bid at 99.50 and m2 an ask at 100.50, as in the snapshots, and m3 enters on
\* either side at either price.
Placed(body) ==
    LET id == IF "order_id" \in DOMAIN body THEN body.order_id
              ELSE IF "id" \in DOMAIN body THEN body.id
              ELSE body.maker_order_id
    IN  \/ id = "m1" /\ body.side = "buy" /\ body.price = "99.50"
        \/ id = "m2" /\ body.side = "sell" /\ body.price = "100.50"
        \/ id = "m3"

ArrivalBodies ==
    { b \in BookBodies :
        /\ {"price", "side"} \subseteq DOMAIN b
        /\ b.type = "change" => "new_size" \in DOMAIN b
        /\ Placed(b) }
    \cup [type : {"heartbeat", "activate"}]

\* the messages of scenario A, and a heartbeat
SeqBodies ==
    { [type |-> "heartbeat"],
      [type |-> "open", id |-> "m3", side |-> "buy", price |-> "99.50",
       size |-> "1"],
      [type |-> "match", maker_order_id |-> "m1", side |-> "buy",
       price |-> "99.50", size |-> "2"],
      [type |-> "done", order_id |-> "m3", side |-> "buy", price |-> "99.50"] }

\* A connection starts with the unnumbered subscriptions message; on_message
\* reads nothing of the message it loads the book on, so that message stands
\* there for every first message.  On the other paths that leave before the
\* dispatch the handler reads only the sequence number, and a heartbeat
\* stands there for every type.
Arrivals(bodies, last) ==
    IF _sequence = -1
    THEN {[type |-> "subscriptions"]}
    ELSE { m \in Sequenced({[type |-> "heartbeat"]}, last) :
             PathOf(Self, m) # "dispatch" }
         \cup {[type |-> "subscriptions"]}
         \cup { b @@ [sequence |-> _sequence + 1] :
                   b \in { x \in bodies : _sequence + 1 <= last } }

\* the gateway is asked for a snapshot on the reset and the gap path only
Answers(msg, last) ==
    IF PathOf(Self, msg) \in {"reset", "gap"} THEN Snapshots(last)
                                              ELSE {NoSnapshot}

BookInit ==
    /\ _asks = RBTree
    /\ _bids = RBTree
    /\ _sequence = -1
    /\ outcome = [path |-> "init"]

OnOpen ==
    /\ _sequence' = -1
    /\ outcome' = [path |-> "on_open"]
    /\ UNCHANGED <<_bids, _asks>>
    /\ UNCHANGED <<ordervars, datavars>>

\* on_open has run before the listening thread delivers a message
OnMessage(msg, res) ==
    /\ outcome.path # "init"
    /\ LET R == on_message(Self, msg, res)
       IN  /\ _bids' = R.self.bids
           /\ _asks' = R.self.asks
           /\ _sequence' = R.self.sequence
           /\ outcome' = R.outcome
    /\ UNCHANGED <<ordervars, datavars>>

-----------------------------------------------------------------------------
(* Order (blockhead/gdax/order_manager.py).                                *)

\* the target quantities of scripts/target_position.py: buy one, sell one
Quantities == {Decimal("1"), 0 - Decimal("1")}

\* str(uuid.uuid4()), in the order the values are drawn
client_oids == <<"c1", "c2", "c3", "c4", "c5">>

\* the ids the exchange gives to the orders it accepts
exchange_ids == <<"x1", "x2", "x3", "x4", "x5">>

uuid4(objects) == client_oids[Cardinality(DOMAIN objects) + 1]

\* the exchange id of the order placed with this client_oid
ExchangeId(client_oid) ==
    exchange_ids[CHOOSE i \in 1..Len(client_oids) :
                     client_oids[i] = client_oid]

abs(size) == IF size < 0 THEN 0 - size ELSE size

\* Decimal.quantize(Order.FIVE_PLACES) under the default context, which
\* rounds half to even: a multiple of ten millionths
quantize(d) ==
    LET q == d \div 10
        r == d % 10
    IN  IF r < 5 THEN 10 * q
        ELSE IF r > 5 THEN 10 * (q + 1)
        ELSE IF q % 2 = 0 THEN 10 * q
        ELSE 10 * (q + 1)

\* dict()
new_dict == [k \in {} |-> k]

\* dict.update: the entries of other replace and extend those of this
dict_update(this, other) ==
    [k \in DOMAIN this \cup DOMAIN other |->
        IF k \in DOMAIN other THEN other[k] ELSE this[k]]

\* Order.__init__; limit_price and order_id are None until a field of that
\* name is set. maker records who constructed the object.
Order(size, client_oid, maker) ==
    [size |-> size, total |-> abs(size), outstanding |-> abs(size),
     placed |-> 0, filled |-> 0, state |-> "initial",
     client_oid |-> client_oid, details |-> new_dict, maker |-> maker]

\* Order.update
update(order, details) ==
    [order EXCEPT !.details = dict_update(@, details)]

\* Order.handle_order_update
Order_handle_order_update(order, msg) ==
    LET updated == update(order, msg)
    IN  IF msg.type = "received" THEN [updated EXCEPT !.state = "received"]
        ELSE IF msg.type = "open" THEN [updated EXCEPT !.state = "open"]
        ELSE IF msg.type = "match"
        THEN [updated EXCEPT !.filled = quantize(@ + Decimal(msg.size))]
        ELSE IF msg.type = "done" THEN [updated EXCEPT !.state = "done"]
        ELSE updated

-----------------------------------------------------------------------------
(* OrderManager and Strategy. An operator takes and returns the manager's  *)
(* objects, M = [orders, order_lookup, gateway].                           *)

lookup_keys == <<"client_oid", "order_id", "maker_order_id", "taker_order_id">>

\* the keys of the message that order_lookup resolves, as positions in
\* lookup_keys
Resolving(M, msg) ==
    {i \in 1..Len(lookup_keys) :
        /\ lookup_keys[i] \in DOMAIN msg
        /\ msg[lookup_keys[i]] \in DOMAIN M.order_lookup}

\* the order OrderManager.handle_order_update hands the message to
Resolved(M, msg) ==
    LET first == CHOOSE i \in Resolving(M, msg) :
                     \A j \in Resolving(M, msg) : i <= j
    IN  M.order_lookup[msg[lookup_keys[first]]]

\* handle_order_update handing the message to the order of every key that
\* resolves
handle_order_update_every_key(M, msg) ==
    [M EXCEPT !.orders =
        [c \in DOMAIN @ |->
            IF \E i \in Resolving(M, msg) :
                   M.order_lookup[msg[lookup_keys[i]]] = c
            THEN Order_handle_order_update(@[c], msg)
            ELSE @[c]]]

\* handle_order_update handing the message to the order of the last key
\* that resolves
handle_order_update_last_key(M, msg) ==
    IF Resolving(M, msg) = {} THEN M
    ELSE LET last == CHOOSE i \in Resolving(M, msg) :
                         \A j \in Resolving(M, msg) : j <= i
             c    == M.order_lookup[msg[lookup_keys[last]]]
         IN  [M EXCEPT !.orders[c] = Order_handle_order_update(@, msg)]

\* OrderManager.handle_order_update
handle_order_update(M, msg) ==
    IF Resolving(M, msg) = {} THEN M
    ELSE LET c == Resolved(M, msg)
         IN  [M EXCEPT !.orders[c] = Order_handle_order_update(@, msg)]

\* a dict with one more entry
Put(dict, key, value) ==
    [k \in DOMAIN dict \cup {key} |-> IF k = key THEN value ELSE dict[k]]

make_order_untracked(M, size) ==
    LET c == uuid4(M.orders)
    IN  [M EXCEPT !.orders = Put(@, c, Order(size, c, "make_order"))]

\* Strategy.make_order; the new order is the one under uuid4(M.orders)
make_order(M, size) ==
    LET c == uuid4(M.orders)
    IN  [M EXCEPT !.orders = Put(@, c, Order(size, c, "make_order")),
                  !.order_lookup = Put(@, c, c)]

\* OrderManager.add_order up to its test of tickdata.initialized
add_order(M, size) ==
    LET c == uuid4(M.orders)
    IN  [M EXCEPT !.orders = Put(@, c, Order(size, c, "add_order")),
                  !.order_lookup = Put(@, c, c)]

\* OrderManager.buy and OrderManager.sell up to the await of the gateway
\* call: the limit price defaults to the inside price of the order's side
place(M, c, price) ==
    [M EXCEPT !.orders[c] = IF "limit_price" \in DOMAIN @ THEN @
                            ELSE Put(@, "limit_price", price),
              !.gateway.placements = @ \cup {c}]

buy(M, c, book) == place(M, c, book.bid)

sell(M, c, book) == place(M, c, book.ask)

\* buy and sell recording the exchange id on the order without indexing it
placed_unindexed(M, c, res) ==
    IF "id" \in DOMAIN res
    THEN [M EXCEPT !.orders[c] = Put(@, "order_id", res.id)]
    ELSE M

\* OrderManager.buy and OrderManager.sell after the gateway has answered
placed(M, c, res) ==
    IF "id" \in DOMAIN res
    THEN [M EXCEPT !.orders[c] = Put(@, "order_id", res.id),
                   !.order_lookup = Put(@, res.id, c)]
    ELSE M

\* Order.begin up to the await of the gateway call
begin(M, c, book) ==
    IF M.orders[c].size > 0 THEN buy(M, c, book) ELSE sell(M, c, book)

\* Order.begin after the gateway has answered
begun(M, c, res) ==
    LET P == placed(M, c, res)
        Q == IF res.status = "rejected"
             THEN [P EXCEPT !.orders[c].state = "done"]
             ELSE [P EXCEPT !.orders[c].placed = res.size]
    IN  [Q EXCEPT !.orders[c] = update(@, res)]

\* a cancel_order that would mark the order done at once, without waiting
\* for the feed
cancel_order_marks_done(M, c) ==
    [M EXCEPT !.gateway.cancels = @ \cup {c},
              !.orders[c].state = "done"]

\* OrderManager.cancel_order up to the await of the gateway call
cancel_order(M, c) ==
    [M EXCEPT !.gateway.cancels = @ \cup {c}]

\* the text the gateway writes a size with
SizeText(d) == CHOOSE text \in {"0", "1", "2", "3"} : Decimal(text) = d

\* the answers of the gateway to a placement
Acknowledgements(M, c) ==
    {[id |-> ExchangeId(c), size |-> SizeText(M.orders[c].total),
      status |-> "pending"],
     [status |-> "rejected", reason |-> "post only"]}

\* FollowStrategy.is_complete
is_complete(M, strat) ==
    /\ "order" \in DOMAIN strat
    /\ M.orders[strat.order].state = "done"

\* must_move without the test of the order's state
must_move_done_too(M, strat, book) ==
    LET order == M.orders[strat.order]
    IN  IF strat.size > 0 THEN book.bid > order.limit_price
        ELSE book.ask < order.limit_price

\* the test of FollowStrategy.update_orders on the top of the book
must_move(M, strat, book) ==
    LET order == M.orders[strat.order]
    IN  /\ IF strat.size > 0 THEN book.bid > order.limit_price
           ELSE book.ask < order.limit_price
        /\ order.state # "done"

-----------------------------------------------------------------------------
(* The feed of the order manager and the event loop of                     *)
(* scripts/target_position.py. A coroutine suspended in a gateway call is  *)
(* a task; it resumes when the gateway answers.                            *)

Manager == [orders |-> order_objects, order_lookup |-> order_lookup,
            gateway |-> gateway]

Becomes(M) ==
    /\ order_objects' = M.orders
    /\ order_lookup' = M.order_lookup
    /\ gateway' = M.gateway

Idle == [pc |-> "idle"]

IsFree(t) == tasks[t].pc = "idle"

\* the slot a new task takes
FreeSlot == CHOOSE t \in 1..MaxTasks :
                IsFree(t) /\ \A u \in 1..MaxTasks : IsFree(u) => t <= u

HasFreeSlot == \E t \in 1..MaxTasks : IsFree(t)

\* the Order objects made so far and those the started work will make
Reserved ==
    Cardinality(DOMAIN order_objects) + Len(pending_strategies)
    + Cardinality({t \in 1..MaxTasks : tasks[t].pc \in {"get_order", "cancel"}})

\* the messages of the user's orders, as the exchange sends them for the
\* placements it was asked for
OrderMessages(c) ==
    {[type |-> "received", client_oid |-> c, order_id |-> ExchangeId(c),
      user_id |-> "u"],
     [type |-> "open", order_id |-> ExchangeId(c), user_id |-> "u"]}
    \cup {[type |-> "match", maker_order_id |-> ExchangeId(c),
           taker_order_id |-> "t", size |-> z, user_id |-> "u"] :
             z \in SizeTexts}
    \cup {[type |-> "done", order_id |-> ExchangeId(c), reason |-> r,
           user_id |-> "u"] : r \in {"filled", "canceled"}}

\* the messages of the feed that touch no order of the user
ForeignMessages == {[type |-> "heartbeat"]}

\* the messages that arrive in the runs: matches of one unit, orders
\* done by a cancel
Arriving(c) ==
    {m \in OrderMessages(c) :
        /\ m.type = "match" => m.size = "1"
        /\ m.type = "done" => m.reason = "canceled"}

\* a feed that sends the messages of the requested orders in any order and
\* any number of times; it stops matching an order once it is filled to
\* MaxFilled units
OrderArrivals(types) ==
    ForeignMessages
    \cup {m \in UNION {Arriving(c) : c \in gateway.placements} :
            /\ m.type \in types
            /\ m.type = "match" =>
                \/ Resolving(Manager, m) = {}
                \/ order_objects[Resolved(Manager, m)].filled
                     + Decimal(m.size) <= MaxFilled * Decimal("1")}

\* a feed that sends the messages of each requested order as the exchange
\* does: received first and once, done last and once, matches up to the
\* size of the order
ExchangeArrivals(types) ==
    ForeignMessages
    \cup UNION {{m \in Arriving(c) :
                   /\ m.type \in types
                   /\ order_objects[c].state # "done"
                   /\ m.type = "received" =>
                          order_objects[c].state = "initial"
                   /\ m.type = "match" =>
                          order_objects[c].filled + Decimal(m.size)
                              <= order_objects[c].total} :
                 c \in gateway.placements}

\* TickData.handle_message from its test of user_id on
notify_order_listeners(M, msg) ==
    IF "user_id" \in DOMAIN msg THEN handle_order_update(M, msg) ELSE M

\* TickData.run after handle_message has returned
Looped == [tickdata EXCEPT !.run = IF tickdata._stop THEN "returned" ELSE @]

\* the pending orders and strategies OrderManager.on_init goes through
Pending == pending_orders \o pending_strategies

\* on_init going through the pending items without beginning the orders
StartPending_skipping_orders(M, i) ==
    IF i <= Len(pending_orders)
    THEN [M |-> M, strategy |-> strategy]
    ELSE LET c == uuid4(M.orders)
         IN  [M |-> begin(make_order(M, strategy.size), c, market),
              strategy |-> Put(strategy, "order", c)]

\* on_init starts the i-th pending item: Order.begin of a pending order,
\* FollowStrategy.init of a pending strategy, up to the gateway call
StartPending(M, i) ==
    IF i <= Len(pending_orders)
    THEN [M |-> begin(M, pending_orders[i], market), strategy |-> strategy]
    ELSE LET c == uuid4(M.orders)
         IN  [M |-> begin(make_order(M, strategy.size), c, market),
              strategy |-> Put(strategy, "order", c)]

\* the Order whose placement on_init awaits
AwaitedPending(i) ==
    IF i <= Len(pending_orders) THEN pending_orders[i] ELSE strategy.order

OrderInit ==
    /\ order_objects = [c \in {} |-> c]
    /\ order_lookup = [k \in {} |-> k]
    /\ pending_orders = <<>>
    /\ pending_strategies = <<>>
    /\ strategies = <<>>
    /\ strategy = [name |-> "FollowStrategy", initialized |-> FALSE]
    /\ tickdata = [initialized |-> FALSE, _stop |-> FALSE, run |-> "loop"]
    /\ on_init_at = Idle
    /\ tasks = [t \in 1..MaxTasks |-> Idle]
    /\ gateway = [placements |-> {}, cancels |-> {}]
    /\ market = [bid |-> Decimal("99.50"), ask |-> Decimal("100.50")]

-----------------------------------------------------------------------------
(* fetch_bars and fetch_bar_batch (blockhead/gdax/data.py).  The range to   *)
(* fetch is counted in batches back from end to complete = 0; sleep_time   *)
(* is in milliseconds.  F is the coroutine: [pc, end, failures,            *)
(* sleep_time, all_bars, attempts], suspended (pc "await") in              *)
(* client.get_product_historic_rates, or finished.                         *)

\* max_attempts of fetch_bar_batch
max_attempts == 5

\* what the gateway answers to get_product_historic_rates: the bars, a
\* timeout, or a response error with status 429 or 500
Rates == {"bars", "TimeoutError", "429", "500"}

\* the test of the while loop of fetch_bars and, if it passes, the start
\* of fetch_bar_batch up to its request
fetch_bars_loop(F) ==
    IF F.end > 0 THEN [F EXCEPT !.pc = "await", !.attempts = 0]
    ELSE [F EXCEPT !.pc = "returned"]

\* fetch_bars from its call to the first request
fetch_bars(end) ==
    fetch_bars_loop([pc |-> "loop", end |-> end, failures |-> 0,
                     sleep_time |-> 500, all_bars |-> 0, attempts |-> 0])

\* fetch_bar_batch and fetch_bars from the gateway's answer to the next
\* request or to the end of fetch_bars
fetch_bar_batch(F, res) ==
    CASE res = "TimeoutError" ->
           IF F.attempts + 1 = max_attempts
           THEN [F EXCEPT !.attempts = @ + 1, !.pc = "TimeoutError"]
           ELSE [F EXCEPT !.attempts = @ + 1]
      [] res = "429" ->
           fetch_bars_loop([F EXCEPT !.failures = @ + 1,
                                     !.sleep_time = 1000 * 2 ^ (F.failures + 1)])
      [] res = "500" -> [F EXCEPT !.pc = "returned"]
      [] res = "bars" ->
           fetch_bars_loop([F EXCEPT !.all_bars = @ + 1, !.end = @ - 1])

-----------------------------------------------------------------------------
(* blockhead/util.py.  A datetime is [wall] or [wall, tzinfo]: the wall    *)
(* clock reading in minutes, and the tzinfo [name, utcoffset] of an aware  *)
(* datetime.  A zone is [name, standard, dst, switch]: its offset is dst   *)
(* from the wall clock reading switch on, standard before.                 *)

utc == [name |-> "UTC", standard |-> 0, dst |-> 0, switch |-> 0]

\* the zones tzlocal.get_localzone() answers in the runs: UTC, New York,
\* Kolkata, and a zone that moves its clocks forward at 01:00
Zones ==
    {utc,
     [name |-> "EST", standard |-> -300, dst |-> -300, switch |-> 0],
     [name |-> "IST", standard |-> 330, dst |-> 330, switch |-> 0],
     [name |-> "CET", standard |-> 60, dst |-> 120, switch |-> 60]}

\* the wall clock readings of the datetimes: minutes of 2018-01-03, with
\* 14:15 among them
Walls == {0, 30, 59, 60, 61, 855, 1380, 1439}

\* zone.utcoffset of a wall clock reading
utcoffset(zone, wall) ==
    IF wall >= zone.switch THEN zone.dst ELSE zone.standard

\* zone.localize(date)
localize(zone, d) ==
    [wall |-> d.wall,
     tzinfo |-> [name |-> zone.name, utcoffset |-> utcoffset(zone, d.wall)]]

\* date.astimezone(zone) of an aware datetime
astimezone(d, zone) ==
    LET instant == d.wall - d.tzinfo.utcoffset
        \* the reading of the zone's clock at the instant
        wall == IF instant + zone.standard >= zone.switch
                THEN instant + zone.dst ELSE instant + zone.standard
    IN  [wall |-> wall,
         tzinfo |-> [name |-> zone.name,
                     utcoffset |-> wall - instant]]

to_local(zone, d) == localize(zone, d)

\* to_utc setting the zone of the datetime without moving its clock
to_utc_replacing_tzinfo(zone, d) ==
    [wall |-> d.wall, tzinfo |-> [name |-> "UTC", utcoffset |-> 0]]

to_utc(zone, d) ==
    LET local == IF "tzinfo" \notin DOMAIN d THEN to_local(zone, d) ELSE d
    IN  astimezone(local, utc)

\* the datetimes the functions are applied to: naive ones, and aware ones
\* of the zones without a change of clocks
Dates ==
    [wall : Walls]
    \cup {localize(zone, [wall |-> w]) :
            zone \in {z \in Zones : z.standard = z.dst /\ z.standard <= 0},
            w \in Walls}

DataInit ==
    /\ fetch = [pc |-> "idle"]
    /\ date = [wall |-> 855]
    /\ local_timezone = utc

Init == BookInit /\ OrderInit /\ DataInit

\* OrderManager.add_strategy(FollowStrategy(size))
AddStrategy(size) ==
    /\ strategies = <<>>
    /\ tickdata.run = "loop"
    /\ Reserved < MaxOrders
    /\ strategies' = <<strategy.name>>
    /\ IF tickdata.initialized
       THEN /\ HasFreeSlot
            /\ LET c == uuid4(order_objects)
               IN  /\ Becomes(begin(make_order(Manager, size), c, market))
                   /\ strategy' = Put(Put(strategy, "size", size), "order", c)
                   /\ tasks' = [tasks EXCEPT ![FreeSlot] =
                                   [pc |-> "init", order |-> c]]
            /\ UNCHANGED pending_strategies
       ELSE /\ pending_strategies' = Append(pending_strategies, strategy.name)
            /\ strategy' = Put(strategy, "size", size)
            /\ UNCHANGED <<order_objects, order_lookup, gateway, tasks>>
    /\ UNCHANGED <<pending_orders, tickdata, on_init_at, market>>
    /\ UNCHANGED <<bookvars, datavars>>

\* OrderManager.add_order(size)
AddOrder(size) ==
    /\ tickdata.run = "loop"
    /\ Reserved < MaxOrders
    /\ Cardinality({c \in DOMAIN order_objects :
                       order_objects[c].maker = "add_order"}) < MaxAdded
    /\ LET c == uuid4(order_objects)
       IN  IF tickdata.initialized
           THEN /\ HasFreeSlot
                /\ Becomes(begin(add_order(Manager, size), c, market))
                /\ tasks' = [tasks EXCEPT ![FreeSlot] =
                                [pc |-> "begin", order |-> c]]
                /\ UNCHANGED pending_orders
           ELSE /\ Becomes(add_order(Manager, size))
                /\ pending_orders' = Append(pending_orders, c)
                /\ UNCHANGED tasks
    /\ UNCHANGED <<pending_strategies, strategies, strategy, tickdata,
                   on_init_at, market>>
    /\ UNCHANGED <<bookvars, datavars>>

\* TickData.handle_message on a message of the feed, up to the first
\* gateway call of OrderManager.on_init if there is one
HandleMessage(msg) ==
    /\ tickdata.run = "loop"
    /\ on_init_at.pc = "idle"
    /\ IF ~tickdata.initialized /\ Pending # <<>>
       THEN LET B == StartPending(Manager, 1)
            IN  /\ Becomes(B.M)
                /\ strategy' = B.strategy
                /\ on_init_at' = [pc |-> "begin", i |-> 1, msg |-> msg]
                /\ tickdata' = [tickdata EXCEPT !.initialized = TRUE]
       ELSE /\ Becomes(notify_order_listeners(Manager, msg))
            /\ tickdata' = [Looped EXCEPT !.initialized = TRUE]
            /\ UNCHANGED <<strategy, on_init_at>>
    /\ UNCHANGED <<pending_orders, pending_strategies, strategies, tasks,
                   market>>
    /\ UNCHANGED <<bookvars, datavars>>

\* OrderManager.on_init resumes with the gateway's answer: the pending item
\* is begun; the next one starts, or the lists are cleared and
\* handle_message goes on with the message it holds
OnInit(res) ==
    /\ on_init_at.pc = "begin"
    /\ LET i == on_init_at.i
           c == AwaitedPending(i)
           M == begun(Manager, c, res)
           strat == IF i <= Len(pending_orders) THEN strategy
                    ELSE [strategy EXCEPT !.initialized = TRUE]
       IN  /\ res \in Acknowledgements(Manager, c)
           /\ IF i < Len(Pending)
              THEN LET B == StartPending(M, i + 1)
                   IN  /\ Becomes(B.M)
                       /\ strategy' = B.strategy
                       /\ on_init_at' = [on_init_at EXCEPT !.i = i + 1]
                       /\ UNCHANGED <<pending_orders, pending_strategies,
                                      tickdata>>
              ELSE /\ Becomes(notify_order_listeners(M, on_init_at.msg))
                   /\ strategy' = strat
                   /\ pending_orders' = <<>>
                   /\ pending_strategies' = <<>>
                   /\ on_init_at' = Idle
                   /\ tickdata' = Looped
    /\ UNCHANGED <<strategies, tasks, market>>
    /\ UNCHANGED <<bookvars, datavars>>

\* do_update of scripts/target_position.py, once a second: the task of the
\* previous call has run up to its first gateway call by then
Tick ==
    /\ strategies # <<>>
    /\ tickdata.run = "loop"
    /\ \A t \in 1..MaxTasks : tasks[t].pc # "start"
    /\ IF is_complete(Manager, strategy)
       THEN /\ tickdata' = [tickdata EXCEPT !._stop = TRUE]
            /\ UNCHANGED tasks
       ELSE /\ HasFreeSlot
            /\ tasks' = [tasks EXCEPT ![FreeSlot] = [pc |-> "start"]]
            /\ UNCHANGED tickdata
    /\ UNCHANGED <<order_objects, order_lookup, gateway, pending_orders,
                   pending_strategies, strategies, strategy, on_init_at,
                   market>>
    /\ UNCHANGED <<bookvars, datavars>>

\* FollowStrategy.update_orders from its start to its first gateway call:
\* cancel_order of a buy, get_order of a sell.  The price it has read stays
\* in its local current_bid / current_ask while it awaits.
UpdateOrders(t) ==
    /\ tasks[t].pc = "start"
    /\ tickdata.run = "loop"
    /\ IF strategy.initialized /\ must_move(Manager, strategy, market)
       THEN /\ Reserved < MaxOrders
            /\ IF strategy.size > 0
               THEN /\ Becomes(cancel_order(Manager, strategy.order))
                    /\ tasks' = [tasks EXCEPT ![t] =
                                    [pc |-> "cancel",
                                     current_bid |-> market.bid]]
               ELSE /\ tasks' = [tasks EXCEPT ![t] =
                                    [pc |-> "get_order",
                                     current_ask |-> market.ask]]
                    /\ UNCHANGED <<order_objects, order_lookup, gateway>>
       ELSE /\ tasks' = [tasks EXCEPT ![t] = Idle]
            /\ UNCHANGED <<order_objects, order_lookup, gateway>>
    /\ UNCHANGED <<pending_orders, pending_strategies, strategies, strategy,
                   tickdata, on_init_at, market>>
    /\ UNCHANGED <<bookvars, datavars>>

\* update_orders of a sell resumes after get_order and cancels the order
\* the strategy holds now
GetOrderAnswered(t) ==
    /\ tasks[t].pc = "get_order"
    /\ tickdata.run = "loop"
    /\ Becomes(cancel_order(Manager, strategy.order))
    /\ tasks' = [tasks EXCEPT ![t] =
                    [pc |-> "cancel", current_ask |-> tasks[t].current_ask]]
    /\ UNCHANGED <<pending_orders, pending_strategies, strategies, strategy,
                   tickdata, on_init_at, market>>
    /\ UNCHANGED <<bookvars, datavars>>

\* update_orders resumes after cancel_order, whatever the answer: a new
\* order replaces the strategy's and is placed at the inside price
CancelAnswered(t) ==
    /\ tasks[t].pc = "cancel"
    /\ tickdata.run = "loop"
    /\ LET c == uuid4(order_objects)
           M == make_order(Manager, strategy.size)
       IN  /\ Becomes(IF strategy.size > 0 THEN buy(M, c, market)
                      ELSE sell(M, c, market))
           /\ strategy' = Put(strategy, "order", c)
           /\ tasks' = [tasks EXCEPT ![t] = [pc |-> "place", order |-> c]]
    /\ UNCHANGED <<pending_orders, pending_strategies, strategies, tickdata,
                   on_init_at, market>>
    /\ UNCHANGED <<bookvars, datavars>>

\* the gateway answers a placement: of update_orders (buy or sell returns
\* and the result is dropped), of add_order (Order.begin goes on), of
\* add_strategy (FollowStrategy.init goes on)
PlaceAnswered(t, res) ==
    /\ tasks[t].pc \in {"place", "begin", "init"}
    /\ tickdata.run = "loop"
    /\ res \in Acknowledgements(Manager, tasks[t].order)
    /\ Becomes(IF tasks[t].pc = "place"
               THEN placed(Manager, tasks[t].order, res)
               ELSE begun(Manager, tasks[t].order, res))
    /\ strategy' = IF tasks[t].pc = "init"
                   THEN [strategy EXCEPT !.initialized = TRUE]
                   ELSE strategy
    /\ tasks' = [tasks EXCEPT ![t] = Idle]
    /\ UNCHANGED <<pending_orders, pending_strategies, strategies, tickdata,
                   on_init_at, market>>
    /\ UNCHANGED <<bookvars, datavars>>

\* the inside prices the strategy follows: the spread narrows and widens
Markets == {[bid |-> Decimal("99.50"), ask |-> Decimal("100.50")],
            [bid |-> Decimal("99.60"), ask |-> Decimal("100.40")]}

\* the top of the book moves
MarketMoves(book) ==
    /\ tickdata.run = "loop"
    /\ book \in Markets \ {market}
    /\ market' = book
    /\ UNCHANGED <<order_objects, order_lookup, gateway, pending_orders,
                   pending_strategies, strategies, strategy, tickdata,
                   on_init_at, tasks>>
    /\ UNCHANGED <<bookvars, datavars>>

\* an answer of the gateway to one of the placements
Answered == UNION {Acknowledgements(Manager, c) : c \in DOMAIN order_objects}

OrderTypes == {"received", "open", "match", "done"}

\* the order manager under the whole feed, without the timer and with the
\* top of the book at rest
OrderNext ==
    \/ \E size \in Quantities : AddStrategy(size)
    \/ \E size \in Quantities : AddOrder(size)
    \/ \E msg \in OrderArrivals(OrderTypes) : HandleMessage(msg)
    \/ \E res \in Answered : OnInit(res)
    \/ \E t \in 1..MaxTasks : \E res \in Answered : PlaceAnswered(t, res)

OrderSpec == Init /\ [][OrderNext]_vars

FollowTypes == {"received", "done"}

\* the order manager with the timer of scripts/target_position.py, under
\* the received and the done messages of the exchange
FollowNext ==
    \/ \E size \in Quantities : AddStrategy(size)
    \/ \E size \in Quantities : AddOrder(size)
    \/ \E msg \in ExchangeArrivals(FollowTypes) : HandleMessage(msg)
    \/ \E res \in Answered : OnInit(res)
    \/ Tick
    \/ \E t \in 1..MaxTasks : UpdateOrders(t)
    \/ \E t \in 1..MaxTasks : GetOrderAnswered(t)
    \/ \E t \in 1..MaxTasks : CancelAnswered(t)
    \/ \E t \in 1..MaxTasks : \E res \in Answered : PlaceAnswered(t, res)
    \/ \E book \in Markets : MarketMoves(book)

FollowSpec == Init /\ [][FollowNext]_vars

\* targets of two units, which the matches of one unit fill in part
Targets == {Decimal("2"), 0 - Decimal("2")}

FillTypes == {"match", "done"}

\* the Follow strategy with the timer, under the match and the done
\* messages of the exchange
FillNext ==
    \/ \E size \in Targets : AddStrategy(size)
    \/ \E msg \in ExchangeArrivals(FillTypes) : HandleMessage(msg)
    \/ \E res \in Answered : OnInit(res)
    \/ Tick
    \/ \E t \in 1..MaxTasks : UpdateOrders(t)
    \/ \E t \in 1..MaxTasks : GetOrderAnswered(t)
    \/ \E t \in 1..MaxTasks : CancelAnswered(t)
    \/ \E t \in 1..MaxTasks : \E res \in Answered : PlaceAnswered(t, res)
    \/ \E book \in Markets : MarketMoves(book)

FillSpec == Init /\ [][FillNext]_vars

Next ==
    \/ OnOpen
    \/ \E msg \in Arrivals(ArrivalBodies, MaxSeq) :
           \E res \in Answers(msg, MaxSeq) : OnMessage(msg, res)

Spec == Init /\ [][Next]_vars

SeqNext ==
    \/ OnOpen
    \/ \E msg \in Arrivals(SeqBodies, LastSeq) :
           \E res \in Answers(msg, LastSeq) : OnMessage(msg, res)

SeqSpec == Init /\ [][SeqNext]_vars

\* fetch_bars is called for a range of so many batches
FetchBars(end) ==
    /\ fetch.pc = "idle"
    /\ fetch' = fetch_bars(end)
    /\ UNCHANGED <<date, local_timezone>>
    /\ UNCHANGED <<bookvars, ordervars>>

\* the gateway answers the request of fetch_bar_batch
BatchAnswered(res) ==
    /\ fetch.pc = "await"
    /\ res = "429" => fetch.failures < MaxFailures
    /\ fetch' = fetch_bar_batch(fetch, res)
    /\ UNCHANGED <<date, local_timezone>>
    /\ UNCHANGED <<bookvars, ordervars>>

FetchNext ==
    \/ \E end \in 0..MaxBatches : FetchBars(end)
    \/ \E res \in Rates : BatchAnswered(res)

FetchSpec == Init /\ [][FetchNext]_vars

\* to_local(date) of an offset-naive datetime
ToLocal ==
    /\ "tzinfo" \notin DOMAIN date
    /\ date' = to_local(local_timezone, date)
    /\ UNCHANGED <<fetch, local_timezone>>
    /\ UNCHANGED <<bookvars, ordervars>>

\* to_utc(date)
ToUtc ==
    /\ date' = to_utc(local_timezone, date)
    /\ UNCHANGED <<fetch, local_timezone>>
    /\ UNCHANGED <<bookvars, ordervars>>

\* any datetime, in any local zone
UtilInit ==
    /\ BookInit
    /\ OrderInit
    /\ fetch = [pc |-> "idle"]
    /\ date \in Dates
    /\ local_timezone \in Zones

UtilNext == ToLocal \/ ToUtc

UtilSpec == UtilInit /\ [][UtilNext]_vars

-----------------------------------------------------------------------------
(* The claims about the book.                                              *)

\* the client after msg when no snapshot is fetched; a reload from NoSnapshot
\* would leave the sequence at -1
After(msg) == on_message(Self, msg, NoSnapshot)

SameBook(S) ==
    S.bids = _bids /\ S.asks = _asks /\ S.sequence = _sequence

\* C1: once the book is loaded, on_message with a message of any type whose
\* sequence is <= the stored sequence leaves bids, asks and the stored
\* sequence unchanged.
C1_StaleDiscard ==
    \A m \in Feed :
        (/\ _sequence # -1
         /\ "sequence" \in DOMAIN m
         /\ m.sequence <= _sequence)
        => SameBook(After(m).self) /\ After(m).outcome.path = "stale"

\* a loaded, non-empty book has just dropped an old message
C1_Witness ==
    /\ outcome.path = "stale"
    /\ _bids # RBTree
    /\ _sequence >= 101

\* C2 as claimed: once set from a snapshot, _sequence never decreases in any
\* step, reloads and on_open included.
C2_SequenceNeverDecreases ==
    [][_sequence # -1 => _sequence' >= _sequence]_vars

\* C2 amended: a message that does not reload the book (it carries no
\* sequence, or one <= the stored sequence + 1) never decreases _sequence.
C2_NoDecreaseWithoutReload ==
    \A m \in Feed :
        (/\ _sequence # -1
         /\ "sequence" \in DOMAIN m => m.sequence <= _sequence + 1)
        => After(m).self.sequence >= _sequence

\* a message has been applied and has advanced the sequence past the
\* snapshot's
C2_Witness ==
    /\ outcome.path = "applied"
    /\ _sequence >= 102

\* the last call was the reload for the gap between 101 and 105
AfterGap101To105 ==
    /\ outcome.path = "gap"
    /\ outcome.gap_start = 101
    /\ outcome.gap_end = 105

\* the book is a snapshot as loaded, nothing applied on top of it
IsSnapshotLoad ==
    \E res \in Snapshots(LastSeq) :
        LET L == reset_book(Self, res)
        IN  L.bids = _bids /\ L.asks = _asks /\ L.sequence = _sequence

C4_LevelInvariant ==
    /\ \A p \in DOMAIN _bids : _bids[p] # <<>>
    /\ \A p \in DOMAIN _asks : _asks[p] # <<>>

\* the queue a match message addresses, <<>> when the level is absent
QueueAt(msg) ==
    LET tree == IF msg.side = "buy" THEN _bids ELSE _asks
    IN  IF Decimal(msg.price) \in DOMAIN tree THEN tree[Decimal(msg.price)]
                                              ELSE <<>>

\* C5: a match whose maker_order_id is not the id at the head of the queue at
\* its side and price leaves the whole book unchanged and raises; handled
\* through on_message it leaves the stored sequence unchanged too.
C5_PriorityEnforcement ==
    \A m \in Feed :
        (/\ m.type = "match"
         /\ QueueAt(m) # <<>>
         /\ QueueAt(m)[1].id # m.maker_order_id)
        => /\ match(Self, m) = [Self EXCEPT !.raised = "AssertionError"]
           /\ PathOf(Self, m) = "dispatch"
                => /\ SameBook(After(m).self)
                   /\ After(m).outcome.path = "AssertionError"

\* a match not on the head of its queue has been refused
C5_Witness ==
    /\ outcome.path = "AssertionError"
    /\ \E p \in DOMAIN _bids : Len(_bids[p]) >= 2

\* C6: every tracked Order has filled <= total, whatever match messages the
\* feed has delivered to it
C6_FillBound ==
    \A c \in DOMAIN order_objects :
        order_objects[c].filled <= order_objects[c].total

\* C7: an order that is done (by a done message or a rejected placement)
\* stays done across every step
C7_TerminalAbsorbing ==
    [][\A c \in DOMAIN order_objects :
          order_objects[c].state = "done"
              => order_objects'[c].state = "done"]_vars

\* no update_orders invocation is in progress and every order a cancel was
\* issued for is done
Settled ==
    /\ \A t \in 1..MaxTasks :
           tasks[t].pc \notin {"start", "get_order", "cancel", "place"}
    /\ \A c \in gateway.cancels : order_objects[c].state = "done"

\* the orders the Follow strategy made that the gateway accepted and that
\* are not done
LiveOrders ==
    {c \in DOMAIN order_objects :
        /\ order_objects[c].maker = "make_order"
        /\ "order_id" \in DOMAIN order_objects[c]
        /\ order_objects[c].state # "done"}

\* C8: whenever no update_orders invocation is in progress and every issued
\* cancel has been answered by its done message, at most one order made by
\* the Follow strategy is not done (counting only the orders the gateway
\* accepted)
C8_FollowSingleOrder == Settled => Cardinality(LiveOrders) <= 1

\* the feed messages that carry this client_oid
Carrying(c) == {m \in OrderMessages(c) : "client_oid" \in DOMAIN m}

\* C9: every order whose placement was requested of the gateway (through
\* add_order, a strategy's init or a Follow replacement) is in order_lookup
\* under its client_oid, and a feed message carrying that client_oid, handled
\* now, is handed to that order
C9_RegistrationPrecedesPlacement ==
    \A c \in gateway.placements :
        /\ c \in DOMAIN order_lookup
        /\ order_lookup[c] = c
        /\ \A m \in Carrying(c) :
               /\ Resolving(Manager, m) # {}
               /\ Resolved(Manager, m) = c
               /\ handle_order_update(Manager, m).orders[c].state = "received"

\* an order of add_order and a replacement of the Follow strategy have been
\* requested, and the feed's acknowledgement of the replacement was handled
\* before the gateway answered its placement
C9_Witness ==
    /\ \E a \in gateway.placements : order_objects[a].maker = "add_order"
    /\ gateway.cancels # {}
    /\ \E t \in 1..MaxTasks :
           /\ tasks[t].pc = "place"
           /\ tasks[t].order = strategy.order
           /\ "order_id" \notin DOMAIN order_objects[strategy.order]
           /\ order_objects[strategy.order].state = "received"

\* the ids a message of the feed may name: those order_lookup knows, the
\* exchange ids of the tracked orders, and an id of somebody else
NamedIds ==
    DOMAIN order_lookup
    \cup {ExchangeId(c) : c \in DOMAIN order_objects} \cup {"t"}

\* what a message carries besides its ids
OrderBodies ==
    [type : {"received", "open", "activate"}, user_id : {"u"}]
    \cup [type : {"match"}, size : SizeTexts, user_id : {"u"}]
    \cup [type : {"done"}, reason : {"filled", "canceled"}, user_id : {"u"}]

\* every message of the feed about orders: one id field, or the two id
\* fields of a received or of a match message
OrderFeed ==
    {dict_update(body, ids) :
        body \in OrderBodies,
        ids \in UNION {[{k} -> NamedIds] :
                         k \in {"client_oid", "order_id", "maker_order_id",
                                "taker_order_id"}}
                \cup [{"client_oid", "order_id"} -> NamedIds]
                \cup [{"maker_order_id", "taker_order_id"} -> NamedIds]}

\* the orders that differ between the manager's objects and those of M
Changed(M) ==
    {c \in DOMAIN order_objects : M.orders[c] # order_objects[c]}

\* C11: handle_order_update on one feed message changes at most one tracked
\* order, an order that one of the message's id fields names in
\* order_lookup, and changes none when no id field resolves; it adds and
\* removes no order and leaves order_lookup alone
C11_UpdateIsolation ==
    \A m \in OrderFeed :
        LET M == handle_order_update(Manager, m)
            changed == Changed(M)
        IN  /\ DOMAIN M.orders = DOMAIN order_objects
            /\ M.order_lookup = order_lookup
            /\ Cardinality(changed) <= 1
            /\ \A c \in changed :
                   \E k \in DOMAIN m :
                       /\ k \in {"client_oid", "order_id", "maker_order_id",
                                  "taker_order_id"}
                       /\ m[k] \in DOMAIN order_lookup
                       /\ order_lookup[m[k]] = c
            /\ (\A k \in DOMAIN m : m[k] \notin DOMAIN order_lookup)
                   => changed = {}

\* two orders are tracked; a done message has set one to done and the
\* other, which the gateway accepted, has seen no message
C11_Witness ==
    \E c1, c2 \in DOMAIN order_objects :
        /\ c1 # c2
        /\ order_objects[c1].state = "done"
        /\ "type" \in DOMAIN order_objects[c1].details
        /\ order_objects[c1].details.type = "done"
        /\ "order_id" \in DOMAIN order_objects[c2]
        /\ "type" \notin DOMAIN order_objects[c2].details
        /\ order_objects[c2].state = "initial"

\* steps of update_orders around cancel_order: the one that calls it and
\* the one that resumes after the gateway's answer to it
CancelIssued ==
    \E t \in DOMAIN tasks :
        /\ tasks[t].pc \in {"start", "get_order"}
        /\ tasks'[t].pc = "cancel"

CancelReturned ==
    \E t \in DOMAIN tasks :
        /\ tasks[t].pc = "cancel"
        /\ tasks'[t].pc # "cancel"

States(objects) == [c \in DOMAIN objects |-> objects[c].state]

Resting(tree) == {p \in DOMAIN tree : tree[p] # <<>>}

\* a bid rests at or above the price of a resting ask
Crossed ==
    \E b \in Resting(_bids), a \in Resting(_asks) : b >= a

\* C13: the book is not left with a bid resting at or above a resting ask
\* while the client goes on as in step with the feed: when the book is
\* crossed, the last callback did not end as an applied or a discarded
\* message
C13_CrossedBookFaults ==
    Crossed => outcome.path \notin {"applied", "stale"}

\* the client that loaded the snapshot res and then took msg as the claim
\* says it takes a message that arrived before the snapshot: applied on top
\* of the snapshot if its sequence is greater, dropped otherwise
Replayed(msg, res) ==
    LET L == reset_book(Self, res)
        D == dispatch(L, msg)
    IN  IF msg.sequence <= res.sequence \/ D.raised # "none" THEN L
        ELSE [D EXCEPT !.sequence = msg.sequence]

\* C14: the message on which on_message loads the snapshot is not lost:
\* with no book loaded yet, a numbered message of the feed leaves the book
\* as the snapshot with the message applied on top when the message's
\* sequence is greater than the snapshot's, and as the snapshot otherwise
C14_FirstMessageReplayed ==
    (_sequence = -1 /\ outcome.path = "on_open")
    => \A m \in Feed, res \in Snapshots(LastSeq) :
           "sequence" \in DOMAIN m
           => on_message(Self, m, res).self = Replayed(m, res)

\* the placement of order c is awaiting the gateway's answer
InFlight(c) ==
    \/ \E t \in 1..MaxTasks :
           /\ tasks[t].pc \in {"place", "begin", "init"}
           /\ tasks[t].order = c
    \/ /\ on_init_at.pc = "begin"
       /\ AwaitedPending(on_init_at.i) = c

\* the gateway has answered the placement of order c with a rejection: an
\* accepting answer carries the id that buy and sell store in order_id
Refused(c) ==
    /\ c \in gateway.placements
    /\ ~InFlight(c)
    /\ "order_id" \notin DOMAIN order_objects[c]

\* C15: every order whose placement the gateway rejected is done, whether
\* it was placed by Order.begin or as a replacement by update_orders
C15_RejectionRecorded ==
    \A c \in DOMAIN order_objects :
        Refused(c) => order_objects[c].state = "done"

\* the message as the feed sends it without the owner's mark
Unmarked(msg) == [k \in DOMAIN msg \ {"user_id"} |-> msg[k]]

\* the messages about the orders placed so far, with and without user_id
TrackedFeed ==
    LET marked == UNION {OrderMessages(c) : c \in gateway.placements}
    IN  marked \cup {Unmarked(m) : m \in marked}

\* C16: a message that carries user_id, or one of whose id fields names a
\* tracked order in order_lookup, reaches OrderManager.handle_order_update:
\* TickData.handle_message leaves the manager as handle_order_update on
\* that message leaves it
C16_ForwardedToTracker ==
    \A m \in TrackedFeed :
        ("user_id" \in DOMAIN m \/ Resolving(Manager, m) # {})
        => notify_order_listeners(Manager, m) = handle_order_update(Manager, m)

\* C17: get_bid answers the highest price at which a bid rests and get_ask
\* the lowest price at which an ask rests, and each raises exactly when no
\* order rests on its side
C17_TopOfBook ==
    /\ get_bid(Self) = max_key([p \in Resting(_bids) |-> _bids[p]])
    /\ get_ask(Self) = min_key([p \in Resting(_asks) |-> _asks[p]])

\* the places of the book where an order with this id rests: side, price
\* and position in the queue
PlacesOf(id) ==
    UNION {{<<"buy", p, i>> : i \in {j \in DOMAIN _bids[p] :
                                        _bids[p][j].id = id}} :
             p \in DOMAIN _bids}
    \cup UNION {{<<"sell", p, i>> : i \in {j \in DOMAIN _asks[p] :
                                             _asks[p][j].id = id}} :
                  p \in DOMAIN _asks}

\* C18: no order id rests at more than one place of the book
C18_UniqueMembership ==
    \A id \in Ids : Cardinality(PlacesOf(id)) <= 1

RECURSIVE FilledOf(_, _)
\* the quantity filled so far on the orders cs of the manager
FilledOf(objects, cs) ==
    IF cs = {} THEN 0
    ELSE LET c == CHOOSE x \in cs : TRUE
         IN  objects[c].filled + FilledOf(objects, cs \ {c})

\* the orders the strategy has made
MadeBy(objects) ==
    {c \in DOMAIN objects : objects[c].maker = "make_order"}

\* C19: an order the Follow strategy makes is for its target less what is
\* filled at that moment on the orders the strategy made before
C19_ReplacementLessFilled ==
    [][\A c \in MadeBy(order_objects') \ DOMAIN order_objects :
          order_objects'[c].total
              = abs(strategy'.size)
                - FilledOf(order_objects, MadeBy(order_objects))]_vars

\* C20: when TickData.run has returned, no placement of an order of the
\* strategy is awaiting the gateway's answer and no order of the strategy
\* that the gateway accepted is other than done
C20_NoOrphanAtShutdown ==
    tickdata.run = "returned"
    => /\ \A c \in MadeBy(order_objects) : ~InFlight(c)
       /\ LiveOrders = {}

\* C21: no callback of the client ends by an exception leaving on_message:
\* each ends on one of the paths on which on_message returns
C21_NoRaiseOutOfHandler ==
    outcome.path \in {"init", "on_open", "reset", "stale", "gap", "applied"}

\* C22: a match that is refused for its maker not being at the head of the
\* queue leaves the stored sequence where it was, one below its own, and so
\* every message of the feed numbered after the refused match reloads the
\* book from a snapshot and is not applied itself
C22_FaultThenResync ==
    /\ [][outcome'.path = "AssertionError" =>
            /\ _sequence' = _sequence
            /\ _bids' = _bids
            /\ _asks' = _asks]_vars
    /\ [](outcome.path = "AssertionError" =>
            \A m \in Feed :
                ("sequence" \in DOMAIN m /\ m.sequence > _sequence + 1)
                => \A res \in Snapshots(LastSeq) :
                       LET R == on_message(Self, m, res)
                       IN  /\ R.outcome.path = "gap"
                           /\ R.self = reset_book(Self, res))

\* a match on an order behind the head of a queue of two has been refused,
\* with messages applied before it
C22_Witness ==
    /\ outcome.path = "AssertionError"
    /\ _sequence > 100
    /\ \E p \in DOMAIN _asks : Len(_asks[p]) >= 2

\* C23: fetch_bars gives up after a bounded number of 429 answers: once
\* max_attempts batches have failed with 429 it issues no further request
C23_BoundedRetry ==
    (fetch.pc # "idle" /\ fetch.failures >= max_attempts)
    => fetch.pc # "await"

\* the instant an aware datetime denotes, in minutes of UTC
Instant(d) == d.wall - d.tzinfo.utcoffset

\* C24: to_utc of a datetime is in UTC; for an offset-naive datetime it
\* denotes the instant to_local of it denotes, for an aware one the instant
\* the datetime denotes; and to_utc of the result is the result
C24_ToUtcPreservesInstant ==
    LET u == to_utc(local_timezone, date)
    IN  /\ u.tzinfo = [name |-> "UTC", utcoffset |-> 0]
        /\ "tzinfo" \notin DOMAIN date
               => Instant(to_local(local_timezone, date)) - Instant(u) = 0
        /\ "tzinfo" \in DOMAIN date => Instant(u) = Instant(date)
        /\ to_utc(local_timezone, u) = u

\* to_utc has turned 14:15 of a zone two hours ahead of UTC into 12:15 UTC
C24_Witness ==
    /\ local_timezone.name = "CET"
    /\ "tzinfo" \in DOMAIN date
    /\ date.tzinfo.name = "UTC"
    /\ date.wall = 735

\* the book effect of a message by its type: the client after add, remove,
\* match or change, and the client as it is for the other types
Effect(msg) ==
    CASE msg.type = "open" -> add(Self, msg)
      [] msg.type = "done" /\ "price" \in DOMAIN msg -> remove(Self, msg)
      [] msg.type = "match" -> match(Self, msg)
      [] msg.type = "change" -> change(Self, msg)
      [] OTHER -> Self

\* the messages numbered one above the stored sequence, in a loaded book
NextInOrder ==
    {m \in Feed : /\ _sequence # -1
                  /\ "sequence" \in DOMAIN m
                  /\ m.sequence = _sequence + 1}

\* C25 as claimed: a message of any type numbered one above the stored
\* sequence has its book effect applied and its sequence stored
C25_InOrderApply ==
    \A m \in NextInOrder :
        /\ After(m).outcome.path = "applied"
        /\ After(m).self.bids = Effect(m).bids
        /\ After(m).self.asks = Effect(m).asks
        /\ After(m).self.sequence = m.sequence

\* C25 amended: a message numbered one above the stored sequence has its
\* book effect applied and its sequence stored, unless it is a match that
\* is refused for its maker not being at the head of the queue: that one
\* leaves the book and the stored sequence as they were
C25_InOrderApplyUnlessRefused ==
    \A m \in NextInOrder :
        IF Effect(m).raised # "none"
        THEN /\ m.type = "match"
             /\ After(m).outcome.path = "AssertionError"
             /\ SameBook(After(m).self)
        ELSE /\ After(m).outcome.path = "applied"
             /\ After(m).self.bids = Effect(m).bids
             /\ After(m).self.asks = Effect(m).asks
             /\ After(m).self.sequence = m.sequence

\* two messages have been applied in order on a loaded book with orders on
\* both sides
C25_Witness ==
    /\ outcome.path = "applied"
    /\ _sequence = 102
    /\ Resting(_bids) # {}
    /\ Resting(_asks) # {}

\* snapshots with two levels on a side and two orders in a level
DeepSnapshots ==
    [sequence : {100, 104},
     bids : {<<<<"99.50", "2", "m1">>, <<"99.60", "1", "m3">>,
               <<"99.50", "1", "m2">>>>},
     asks : {<<>>, <<<<"100.50", "3", "m4">>, <<"100.50", "1", "m5">>,
                     <<"100.40", "2", "m6">>>>}]

\* the entries of a snapshot side at one price, in snapshot order, as the
\* orders of the book
LevelOf(entries, side, price) ==
    LET at == SelectSeq(entries, LAMBDA e : Decimal(e[1]) = price)
    IN  [i \in 1..Len(at) |->
            [id |-> at[i][3], side |-> side, price |-> price,
             size |-> Decimal(at[i][2])]]

\* the tree that holds exactly the entries of a snapshot side
TreeOf(entries, side) ==
    [p \in {Decimal(entries[i][1]) : i \in 1..Len(entries)} |->
        LevelOf(entries, side, p)]

\* C26: reset_book leaves exactly the snapshot in the book, whatever the
\* book held: every order at its side and price, the queues in snapshot
\* order, the stored sequence the snapshot's; and on_message does just that
\* on the first message after on_open and on a sequence gap
C26_SnapshotReplacesAll ==
    \A res \in Snapshots(LastSeq) \cup DeepSnapshots :
        LET L == reset_book(Self, res)
        IN  /\ L.bids = TreeOf(res.bids, "buy")
            /\ L.asks = TreeOf(res.asks, "sell")
            /\ L.sequence = res.sequence
            /\ \A m \in Sequenced({[type |-> "heartbeat"]}, LastSeq)
                          \cup {[type |-> "subscriptions"]} :
                   /\ _sequence = -1 => on_message(Self, m, res).self = L
                   /\ PathOf(Self, m) = "gap"
                          => on_message(Self, m, res).self = L

\* a gap has reloaded a book to which a message had been applied, and the
\* snapshot had no bids
C26_Witness ==
    /\ outcome.path = "gap"
    /\ outcome.gap_start = 101
    /\ _bids = RBTree
    /\ _asks # RBTree

\* snapshots with the same order id twice in one level
DuplicateSnapshots ==
    [sequence : {100},
     bids : {<<<<"99.50", "2", "m1">>, <<"99.50", "1", "m1">>>>},
     asks : {<<>>, <<<<"100.50", "3", "m2">>>>}]

\* C27: a snapshot with an order id twice in a level is refused: where
\* on_message loads the book, it ends by InvalidSnapshot and the book is
\* not that snapshot
C27_InvalidSnapshotRejected ==
    \A res \in DuplicateSnapshots :
        \A m \in Sequenced({[type |-> "heartbeat"]}, LastSeq)
                  \cup {[type |-> "subscriptions"]} :
            (outcome.path # "init" /\ PathOf(Self, m) \in {"reset", "gap"})
            => LET R == on_message(Self, m, res)
               IN  /\ R.outcome.path = "InvalidSnapshot"
                   /\ R.self.bids # TreeOf(res.bids, "buy")

\* the queue of a tree at a price, <<>> when the tree has no such level
QueueOf(tree, price) == IF price \in DOMAIN tree THEN tree[price] ELSE <<>>

\* the tree is the other one but for the level at the price
SameBut(tree, other, price) ==
    /\ DOMAIN tree \ {price} = DOMAIN other \ {price}
    /\ \A p \in DOMAIN tree \ {price} : tree[p] = other[p]

\* C28: add puts the order at the tail of the queue at its price on its
\* side, making the level if there is none, with the orders before it as
\* they were; every other level, the other side and the stored sequence
\* are as before
C28_AddAtTail ==
    \A m \in OpenBodies :
        LET A == add(Self, m)
            price == Decimal(m.price)
            o == [id |-> IF "order_id" \in DOMAIN m THEN m.order_id ELSE m.id,
                  side |-> m.side, price |-> price,
                  size |-> Decimal(IF "size" \in DOMAIN m THEN m.size
                                   ELSE m.remaining_size)]
        IN  /\ A.sequence = _sequence
            /\ A.raised = "none"
            /\ IF m.side = "buy"
               THEN /\ price \in DOMAIN A.bids
                    /\ A.bids[price] = Append(QueueOf(_bids, price), o)
                    /\ SameBut(A.bids, _bids, price)
                    /\ A.asks = _asks
               ELSE /\ price \in DOMAIN A.asks
                    /\ A.asks[price] = Append(QueueOf(_asks, price), o)
                    /\ SameBut(A.asks, _asks, price)
                    /\ A.bids = _bids

\* an open has put m3 behind m1 in the bid queue at 99.50, with asks
\* resting on the other side
C28_Witness ==
    /\ outcome.path = "applied"
    /\ Decimal("99.50") \in DOMAIN _bids
    /\ Len(_bids[Decimal("99.50")]) = 2
    /\ _bids[Decimal("99.50")][1].id = "m1"
    /\ _bids[Decimal("99.50")][2].id = "m3"
    /\ Resting(_asks) # {}

\* the done messages that carry a price
PricedDone == {m \in DoneBodies : "price" \in DOMAIN m}

\* the tree is what is left of the other one when the order with the id
\* leaves the queue at the price: the rest of the queue in its order, or
\* no level when nothing is left
Removed(tree, other, price, id) ==
    LET left == Without(other[price], id)
    IN  /\ SameBut(tree, other, price)
        /\ IF left = <<>> THEN price \notin DOMAIN tree
           ELSE price \in DOMAIN tree /\ tree[price] = left

\* an order with the id rests in the tree at the price
RestsAt(tree, price, id) ==
    \E i \in DOMAIN QueueOf(tree, price) : QueueOf(tree, price)[i].id = id

Matched(tree, other, price, size) ==
    LET queue == other[price]
        left == IF queue[1].size - size = 0 THEN Rest(queue)
                ELSE [queue EXCEPT ![1].size = @ - size]
    IN  /\ SameBut(tree, other, price)
        /\ IF left = <<>> THEN price \notin DOMAIN tree
           ELSE price \in DOMAIN tree /\ tree[price] = left

\* C30: a match on the head of the queue at its side and price takes the
\* matched size off the head, removes the head when nothing of it remains
\* and the level when the queue is then empty, and changes nothing else
C30_MatchEffect ==
    \A m \in MatchBodies :
        (QueueAt(m) # <<>> /\ QueueAt(m)[1].id = m.maker_order_id)
        => LET M == match(Self, m)
               price == Decimal(m.price)
               size == Decimal(m.size)
           IN  /\ M.raised = "none"
               /\ IF m.side = "buy"
                  THEN /\ Matched(M.bids, _bids, price, size)
                       /\ M.asks = _asks
                  ELSE /\ Matched(M.asks, _asks, price, size)
                       /\ M.bids = _bids

\* the tree is the other one with the size of the first order with the id
\* in the queue at the price set to size: the queue as long as before, every
\* order in its place, every other order as it was
Resized(tree, other, price, id, size) ==
    LET queue == other[price]
        first == CHOOSE i \in DOMAIN queue :
                     /\ queue[i].id = id
                     /\ \A j \in 1..(i - 1) : queue[j].id # id
    IN  /\ SameBut(tree, other, price)
        /\ price \in DOMAIN tree
        /\ Len(tree[price]) = Len(queue)
        /\ \A i \in DOMAIN queue :
               IF i = first
               THEN tree[price][i] = [id |-> id, side |-> queue[i].side,
                                      price |-> queue[i].price, size |-> size]
               ELSE tree[price][i] = queue[i]

\* C31: a change with new_size and price sets the size of the named order
\* where it stands in its queue and changes no other order; without
\* new_size or price, or with no order of that id resting at the side and
\* price, it leaves the book as it is
C31_ChangeInPlace ==
    \A m \in ChangeBodies :
        LET C == change(Self, m)
        IN  IF /\ {"new_size", "price"} \subseteq DOMAIN m
               /\ RestsAt(IF m.side = "buy" THEN _bids ELSE _asks,
                          Decimal(m.price), m.order_id)
            THEN /\ C.sequence = _sequence
                 /\ IF m.side = "buy"
                    THEN /\ Resized(C.bids, _bids, Decimal(m.price),
                                    m.order_id, Decimal(m.new_size))
                         /\ C.asks = _asks
                    ELSE /\ Resized(C.asks, _asks, Decimal(m.price),
                                    m.order_id, Decimal(m.new_size))
                         /\ C.bids = _bids
            ELSE C = Self

\* after an applied message the bid queue at 99.50 holds m1 with size 1
\* before m3 with size 2: the queue of two in which a change of the size
\* of m1 is applied at the head, m3 staying behind it
C31_Witness ==
    /\ outcome.path = "applied"
    /\ _sequence = 103
    /\ Decimal("99.50") \in DOMAIN _bids
    /\ Len(_bids[Decimal("99.50")]) = 2
    /\ _bids[Decimal("99.50")][1].id = "m1"
    /\ _bids[Decimal("99.50")][1].size = Decimal("1")
    /\ _bids[Decimal("99.50")][2].id = "m3"
    /\ _bids[Decimal("99.50")][2].size = Decimal("2")

\* the messages on_message dispatches to no operation of the book
NonBook ==
    { m \in Feed :
        \/ m.type \in {"received", "heartbeat", "ticker", "subscriptions",
                       "error"}
        \/ m.type = "done" /\ "price" \notin DOMAIN m }

\* C32: a message of type received, heartbeat, ticker, subscriptions or
\* error, or a done without a price, that is in sequence (numbered one above
\* the stored sequence, or not numbered) leaves bids and asks as they are
\* and stores its sequence number when it carries one
C32_NonBookMessages ==
    \A m \in NonBook :
        PathOf(Self, m) = "dispatch"
        => /\ After(m).outcome.path = "applied"
           /\ After(m).self.bids = _bids
           /\ After(m).self.asks = _asks
           /\ After(m).self.sequence = IF "sequence" \in DOMAIN m
                                       THEN m.sequence ELSE _sequence

\* one message after the load at sequence 100 the book is the snapshot's,
\* both of its orders at their sizes, and the stored sequence is 101
C32_Witness ==
    /\ outcome.path = "applied"
    /\ _sequence = 101
    /\ _bids = TreeOf(<<<<"99.50", "2", "m1">>>>, "buy")
    /\ _asks = TreeOf(<<<<"100.50", "3", "m2">>>>, "sell")

\* the key is in the message and order_lookup maps its value to an order
Tracks(msg, key) ==
    key \in DOMAIN msg /\ msg[key] \in DOMAIN order_lookup

\* the first of client_oid, order_id, maker_order_id, taker_order_id, in
\* that order, that the message carries and order_lookup maps
FirstTracked(msg) ==
    IF Tracks(msg, "client_oid") THEN "client_oid"
    ELSE IF Tracks(msg, "order_id") THEN "order_id"
    ELSE IF Tracks(msg, "maker_order_id") THEN "maker_order_id"
    ELSE IF Tracks(msg, "taker_order_id") THEN "taker_order_id"
    ELSE "none"

\* C33: handle_order_update updates the order found under the first of
\* client_oid, order_id, maker_order_id, taker_order_id that the message
\* carries and that maps to a tracked order, passing over a key that maps to
\* nothing; that order alone takes the message, also when a later key maps
\* to another tracked order, and with no such key nothing is updated
C33_LookupKeyPriority ==
    \A m \in OrderFeed :
        LET M   == handle_order_update(Manager, m)
            key == FirstTracked(m)
        IN  /\ M.order_lookup = order_lookup
            /\ DOMAIN M.orders = DOMAIN order_objects
            /\ \A c \in DOMAIN order_objects :
                   M.orders[c] =
                       IF key # "none" /\ order_lookup[m[key]] = c
                       THEN Order_handle_order_update(order_objects[c], m)
                       ELSE order_objects[c]

\* two orders are tracked and a match has been delivered to one of them
\* under its maker_order_id, the third key: the message carried neither
\* client_oid nor order_id, and its taker_order_id maps to no order
C33_Witness ==
    \E c1, c2 \in DOMAIN order_objects :
        /\ c1 # c2
        /\ {"maker_order_id", "taker_order_id"}
               \subseteq DOMAIN order_objects[c1].details
        /\ order_objects[c1].details.maker_order_id \in DOMAIN order_lookup
        /\ order_lookup[order_objects[c1].details.maker_order_id] = c1
        /\ order_objects[c1].details.taker_order_id \notin DOMAIN order_lookup
        /\ order_objects[c1].filled > 0
        /\ order_objects[c2].filled = 0

\* C34: the state of a tracked order changes only from initial to received
\* or done, from received to open or done, and from open to done: no step
\* makes an order received that was not initial, or open that was not
\* received
C34_LifecycleTransitions ==
    [][\A c \in DOMAIN order_objects :
          order_objects'[c].state # order_objects[c].state
          => \/ order_objects'[c].state = "done"
             \/ /\ order_objects'[c].state = "received"
                /\ order_objects[c].state = "initial"
             \/ /\ order_objects'[c].state = "open"
                /\ order_objects[c].state = "received"]_vars

\* the strategy is initialized and its order has to follow the inside
\* price: a buy below the best bid, a sell above the best ask, not done
Behind ==
    /\ strategy.initialized
    /\ IF strategy.size > 0
       THEN market.bid > order_objects[strategy.order].limit_price
       ELSE market.ask < order_objects[strategy.order].limit_price
    /\ order_objects[strategy.order].state # "done"

\* what update_orders does when it runs after a tick: with an order that
\* has to follow it goes on to cancel it (a buy at once, the cancel issued
\* for the current order; a sell after asking the gateway for the order),
\* and otherwise it ends with no command issued, the strategy's order and
\* every tracked order as they were
TickDecides ==
    \A t \in 1..MaxTasks :
        (tasks[t].pc = "start" /\ tasks'[t].pc # "start")
        => IF Behind
           THEN /\ strategy' = strategy
                /\ IF strategy.size > 0
                   THEN /\ tasks'[t].pc = "cancel"
                        /\ strategy.order \in gateway'.cancels
                        /\ gateway'.placements = gateway.placements
                   ELSE /\ tasks'[t].pc = "get_order"
                        /\ gateway' = gateway
           ELSE /\ tasks'[t].pc = "idle"
                /\ gateway' = gateway
                /\ strategy' = strategy
                /\ order_objects' = order_objects
                /\ order_lookup' = order_lookup

\* update_orders resumes after the cancel: a new order, requested of the
\* gateway, is the strategy's order, priced by the book given
ReplacedAt(t, price) ==
    (tasks[t].pc = "cancel" /\ tasks'[t].pc # "cancel")
    => /\ strategy'.order \notin DOMAIN order_objects
       /\ strategy'.order \in DOMAIN order_objects'
       /\ strategy'.order \in gateway'.placements
       /\ tasks'[t] = [pc |-> "place", order |-> strategy'.order]
       /\ order_objects'[strategy'.order].limit_price = price

\* the price update_orders read on its tick
ReadOnTick(t) ==
    IF strategy.size > 0 THEN tasks[t].current_bid ELSE tasks[t].current_ask

\* C35 as stated: an initialized Follow strategy cancels and replaces its
\* order on a tick exactly when the order is behind the inside price and
\* not done, otherwise issues nothing and keeps its order; the replacement
\* becomes the strategy's order with the best price read on that tick as
\* its limit price
C35_RepriceAtTickPrice ==
    [][/\ TickDecides
       /\ \A t \in 1..MaxTasks : ReplacedAt(t, ReadOnTick(t))]_vars

\* C35 with the price of the replacement read when it is placed: the limit
\* price is the best bid (best ask for a sell) of the book at the moment
\* update_orders resumes after the cancel
C35_RepriceAtPlacementPrice ==
    [][/\ TickDecides
       /\ \A t \in 1..MaxTasks :
              ReplacedAt(t, IF strategy.size > 0 THEN market.bid
                            ELSE market.ask)]_vars

\* a buy has been replaced: its first order, at 99.50, was canceled and is
\* done, and the strategy's order is a later one at 99.60, accepted
C35_Witness ==
    /\ "order" \in DOMAIN strategy
    /\ strategy.size > 0
    /\ gateway.cancels # {}
    /\ strategy.order \notin gateway.cancels
    /\ \A c \in gateway.cancels :
           /\ order_objects[c].state = "done"
           /\ order_objects[c].limit_price = Decimal("99.50")
    /\ order_objects[strategy.order].limit_price = Decimal("99.60")
    /\ "order_id" \in DOMAIN order_objects[strategy.order]

\* a step of an update_orders invocation: from its start, or resuming
\* after the gateway's answer to its get_order, its cancel or its placement
UpdateOrdersSteps ==
    \E t \in 1..MaxTasks :
        /\ tasks[t].pc \in {"start", "get_order", "cancel", "place"}
        /\ tasks'[t] # tasks[t]

\* C36: no step of update_orders adds, removes or remaps an entry of
\* order_lookup or changes a tracked order object or the set of tracked
\* orders; it only issues gateway commands
C36_SingleWriter ==
    [][UpdateOrdersSteps
         => /\ order_lookup' = order_lookup
            /\ order_objects' = order_objects]_vars

\* the numbered messages of the feed
Numbered == { m \in Feed : "sequence" \in DOMAIN m }

\* numbered messages that change a book when they are applied to it: an
\* open of m3 on either side, and a heartbeat for the others
GapFeed ==
    Sequenced({[type |-> "heartbeat"],
               [type |-> "open", order_id |-> "m3", side |-> "buy",
                price |-> "99.50", remaining_size |-> "1"],
               [type |-> "open", order_id |-> "m3", side |-> "sell",
                price |-> "100.50", remaining_size |-> "1"]}, LastSeq)

\* C37: of the numbered messages on_message applies to a loaded book
\* exactly those numbered one above the stored sequence, and any other
\* leaves bids and asks as they are unless it reloads them; a message
\* numbered higher reloads the book and is not applied itself, the book
\* being the snapshot and the stored sequence the snapshot's, and every
\* later numbered message meets the same test against that sequence
C37_NoApplicationAcrossGap ==
    /\ \A m \in Numbered :
           _sequence # -1
           => /\ After(m).outcome.path \in {"applied", "AssertionError"}
                     <=> m.sequence = _sequence + 1
              /\ m.sequence < _sequence + 1 => SameBook(After(m).self)
              /\ m.sequence > _sequence + 1
                     <=> After(m).outcome.path = "gap"
    /\ \A m \in GapFeed : \A res \in Snapshots(LastSeq) :
           (_sequence # -1 /\ m.sequence > _sequence + 1)
           => LET R == on_message(Self, m, res)
              IN  /\ R.outcome.path = "gap"
                  /\ R.self.bids = TreeOf(res.bids, "buy")
                  /\ R.self.asks = TreeOf(res.asks, "sell")
                  /\ R.self.sequence = res.sequence
                  /\ \A n \in Sequenced({[type |-> "heartbeat"]}, LastSeq) :
                         on_message(R.self, n, NoSnapshot).outcome.path =
                             IF n.sequence <= res.sequence THEN "stale"
                             ELSE IF n.sequence = res.sequence + 1
                             THEN "applied"
                             ELSE "gap"

\* the message numbered 102 met a book at sequence 100 and reloaded it
\* from a snapshot at 102 that holds both orders
C37_Witness ==
    /\ outcome.path = "gap"
    /\ outcome.gap_start = 100
    /\ outcome.gap_end = 102
    /\ _sequence = 102
    /\ _bids # RBTree
    /\ _asks # RBTree

\* C38: every order resting in the book, bid or ask, has a size above zero
C38_PositiveSizes ==
    /\ \A p \in DOMAIN _bids : \A i \in 1..Len(_bids[p]) : _bids[p][i].size > 0
    /\ \A p \in DOMAIN _asks : \A i \in 1..Len(_asks[p]) : _asks[p][i].size > 0

\* how many pending items on_init has started
StartedPending ==
    IF on_init_at.pc = "begin" THEN on_init_at.i ELSE 0

\* the orders whose placement a coroutine awaits in the next state and not
\* in this one
Starting ==
    {c \in DOMAIN order_objects' :
        /\ \/ \E t \in 1..MaxTasks :
                  /\ tasks'[t].pc \in {"place", "begin", "init"}
                  /\ tasks'[t].order = c
           \/ /\ on_init_at'.pc = "begin"
              /\ c = IF on_init_at'.i <= Len(pending_orders')
                     THEN pending_orders'[on_init_at'.i]
                     ELSE strategy'.order
        /\ ~ (c \in DOMAIN order_objects /\ InFlight(c))}

C40_IndexConsistency ==
    /\ [](\A c \in DOMAIN order_objects :
              /\ order_objects[c].client_oid \in DOMAIN order_lookup
              /\ order_lookup[order_objects[c].client_oid] = c
              /\ "order_id" \in DOMAIN order_objects[c]
                 => (/\ order_objects[c].order_id \in DOMAIN order_lookup
                     /\ order_lookup[order_objects[c].order_id] = c))
    /\ [][\A k \in DOMAIN order_lookup :
              /\ k \in DOMAIN order_lookup'
              /\ order_lookup'[k] = order_lookup[k]]_vars

\* an order was canceled and replaced, its done message has reached it
\* under its order_id, and the replacement has been accepted and indexed
C40_Witness ==
    \E c \in gateway.cancels :
        /\ order_objects[c].state = "done"
        /\ "type" \in DOMAIN order_objects[c].details
        /\ order_objects[c].details.type = "done"
        /\ strategy.order # c
        /\ "order_id" \in DOMAIN order_objects[strategy.order]
        /\ order_objects[strategy.order].order_id \in DOMAIN order_lookup

\* the books of scenario A
ScenarioOrder(id, side, price, size) ==
    [id |-> id, side |-> side, price |-> Decimal(price),
     size |-> Decimal(size)]

ScenarioBids(orders) == insert(RBTree, Decimal("99.50"), orders)

ScenarioAsks ==
    insert(RBTree, Decimal("100.50"),
           <<ScenarioOrder("m2", "sell", "100.50", "3")>>)

====
